---------------------------- MODULE Spec2Model ----------------------------
(***************************************************************************)
(* The server side of the Nix daemon worker protocol as implemented by     *)
(* src/src/lib.rs (NixReadWrite::process_connection and read_command) and  *)
(* the proxy's framed-source stream of src/src/worker_op.rs.               *)
(*                                                                         *)
(* The two halves of the connection are byte sequences.  `input` is what   *)
(* the client writes, in order; the client may close its half after any    *)
(* byte, which the server observes as a failed read_exact (`eof` records   *)
(* where).  `out` is what the server has handed to the write half.         *)
(*                                                                         *)
(* A u64 is modelled by its value.  TLC's integers are 32 bits wide, so    *)
(* from_le_bytes saturates at U64Cap; the client scripts keep every word   *)
(* the server looks at below that value.                                   *)
(***************************************************************************)
EXTENDS Integers, Sequences, FiniteSets, TLC

VARIABLES
    script,          \* history: the client's script in structured form
    input,           \* bytes the client writes to the read half
    eof,             \* where the client closed its half (NoEof: beyond the server's reads so far)
    rpos,            \* bytes consumed from the read half
    out,             \* bytes handed to the write half
    flushed,         \* length of `out` at the last flush
    pc,              \* position of process_connection / read_command
    err,             \* how process_connection ended (NoErr while it runs)
    client_version,  \* lib.rs:301
    op,              \* opcode being served (lib.rs:195)
    cnt,             \* remaining iterations of the running for-loop
    name,            \* the path carried into the reply (lib.rs:255, 273)
    served,          \* history: requests whose handler returned Ok
    mark,            \* history: length of `out` when the last handler returned
    decoded,         \* the value last decoded by the typed codec
    replies,         \* proxy: bytes the upstream daemon writes
    upos,            \* proxy: bytes consumed from the upstream daemon
    down,            \* proxy: bytes handed to the downstream client
    pending,         \* proxy: opcodes forwarded upstream and not yet answered
    rpc,             \* proxy: position of the upstream-to-downstream transfer
    dbg_buf,         \* worker_op.rs:219, as the last proxy_response left it
    log_buf          \* worker_op.rs:212, as the last proxy_response left it

\* the state only the typed codec and the proxy use
typed == <<decoded, replies, upos, down, pending, rpc, dbg_buf, log_buf>>

vars == <<script, input, eof, rpos, out, flushed, pc, err, client_version,
          op, cnt, name, served, mark, typed>>

\* the typed codec and the proxy are not in use
NoTyped ==
    /\ decoded = <<>>
    /\ replies = <<>>
    /\ upos = 0
    /\ down = <<>>
    /\ pending = <<>>
    /\ rpc = "off"
    /\ dbg_buf = <<>>
    /\ log_buf = <<>>

---------------------------------------------------------------------------
(* Bounds of the model *)

\* requests per client script
MaxReqs == 2
\* chunks before the terminator of a framed source
MaxChunks == 2
\* name/value overrides of a SetOptions request, entries of a StorePathSet
MaxItems == 1
\* length of the byte strings given to write_string and read_string
MaxStrLen == 17

---------------------------------------------------------------------------
(* Sequences of bytes *)

Take(s, n) == SubSeq(s, 1, n)

Drop(s, n) == SubSeq(s, n + 1, Len(s))

Zeros(n) == [i \in 1..n |-> 0]

\* F of the value v, with v computed once however often F uses it
Then(v, F(_)) == CHOOSE r \in {F(x) : x \in {v}} : TRUE

RECURSIVE Flatten(_)
Flatten(ss) == IF ss = <<>> THEN <<>> ELSE Head(ss) \o Flatten(Tail(ss))

U64Cap == 2147483646 + 1

---------------------------------------------------------------------------
(* Program constants *)

WORKER_MAGIC_1 == 1852405859      \* 0x6e697863
WORKER_MAGIC_2 == 1685612911      \* 0x6478696f
PROTOCOL_MAJOR == 1
PROTOCOL_MINOR == 34
LAST == 1634497651                \* StderrSignal::Last = 0x616c7473
MIN_CLIENT_VERSION == 266         \* 0x10a

\* "rust-nix-bazel-0.1.0"
DAEMON_ID == <<114, 117, 115, 116, 45, 110, 105, 120, 45, 98, 97, 122, 101,
               108, 45, 48, 46, 49, 46, 48>>

\* b"000...0", 64 times the digit 0
NAR_HASH == [i \in 1..64 |-> 48]

NoErr == "none"
NoEof == -1
NoOp == -1

\* impl From<DaemonVersion> for u64
version_to_u64(major, minor) == major * 256 + minor

\* impl From<u64> for DaemonVersion
minor_of(x) == x % 256

---------------------------------------------------------------------------
(* The primitive codec of NixReadWrite *)

to_le_bytes(n) ==
    <<n % 256, (n \div 256) % 256, (n \div 65536) % 256,
      (n \div 16777216) % 256, 0, 0, 0, 0>>

from_le_bytes(b) ==
    IF b[5] # 0 \/ b[6] # 0 \/ b[7] # 0 \/ b[8] # 0 \/ b[4] >= 128
    THEN U64Cap
    ELSE b[1] + 256 * b[2] + 65536 * b[3] + 16777216 * b[4]

\* Read::read_exact on the stream s from position pos: all n bytes or an
\* UnexpectedEof error, after which everything that was left is consumed.
read_exact(s, pos, n) ==
    IF n <= Len(s) - pos
    THEN [ok |-> TRUE, buf |-> SubSeq(s, pos + 1, pos + n), pos |-> pos + n]
    ELSE [ok |-> FALSE, buf |-> <<>>, pos |-> Len(s)]

read_u64(s, pos) ==
    LET r == read_exact(s, pos, 8) IN
    IF r.ok THEN [ok |-> TRUE, val |-> from_le_bytes(r.buf), pos |-> r.pos]
    ELSE [ok |-> FALSE, val |-> 0, pos |-> r.pos]

read_bool(s, pos) ==
    LET r == read_u64(s, pos) IN
    [ok |-> r.ok, val |-> (r.val # 0), pos |-> r.pos]

\* mutant of padding: a string that ends on a multiple of 8 is padded too
padding_full(n) == 8 - (n % 8)

\* bytes of padding read after, or written after, a string of length n
padding(n) == IF n % 8 > 0 THEN 8 - (n % 8) ELSE 0

read_string(s, pos) ==
    LET l == read_u64(s, pos) IN
    IF ~l.ok THEN [ok |-> FALSE, val |-> <<>>, pos |-> l.pos]
    ELSE LET b == read_exact(s, l.pos, l.val) IN
         IF ~b.ok THEN [ok |-> FALSE, val |-> <<>>, pos |-> b.pos]
         ELSE LET p == read_exact(s, b.pos, padding(l.val)) IN
              IF ~p.ok THEN [ok |-> FALSE, val |-> <<>>, pos |-> p.pos]
              ELSE [ok |-> TRUE, val |-> b.buf, pos |-> p.pos]

\* Write::write on the write half: the write half of this model takes every
\* buffer it is offered whole.
write(o, buf) == o \o buf

write_all(o, buf) == o \o buf

write_u64(o, n) == write(o, to_le_bytes(n))

\* mutant of flush: the bytes stay in the buffer of the write half
flush_never(o, f) == f

\* Write::flush on the write half that holds o, of which the first f
\* bytes were flushed before: every byte handed over so far is flushed
flush(o, f) == Len(o)

write_string(o, s) ==
    write_all(write_all(write_u64(o, Len(s)), s), Zeros(padding(Len(s))))

\* the first k u64s of the stream from pos, one read_u64 after the other:
\* all k words when 8 * k bytes are left, and otherwise the words that are
\* whole and the failure of the read_u64 that falls short, which consumes
\* what is left
read_u64s(s, pos, k) ==
    LET whole == (Len(s) - pos) \div 8
        words(m) == [i \in 1..m |->
                       from_le_bytes(SubSeq(s, pos + 8 * i - 7, pos + 8 * i))]
    IN IF k <= whole
       THEN [ok |-> TRUE, vals |-> words(k), pos |-> pos + 8 * k]
       ELSE [ok |-> FALSE, vals |-> words(whole), pos |-> Len(s)]

\* a UTF-8 continuation byte
is_cont(b) == b >= 128 /\ b <= 191

\* String::from_utf8(..) is Ok: the bytes are well-formed UTF-8
RECURSIVE valid_utf8(_)
valid_utf8(s) ==
    IF s = <<>> THEN TRUE
    ELSE LET b == s[1] IN
         IF b < 128 THEN valid_utf8(Tail(s))
         ELSE IF b >= 194 /\ b <= 223
         THEN Len(s) >= 2 /\ is_cont(s[2]) /\ valid_utf8(Drop(s, 2))
         ELSE IF b >= 224 /\ b <= 239
         THEN /\ Len(s) >= 3
              /\ is_cont(s[2]) /\ is_cont(s[3])
              /\ (b = 224 => s[2] >= 160)
              /\ (b = 237 => s[2] <= 159)
              /\ valid_utf8(Drop(s, 3))
         ELSE IF b >= 240 /\ b <= 244
         THEN /\ Len(s) >= 4
              /\ is_cont(s[2]) /\ is_cont(s[3]) /\ is_cont(s[4])
              /\ (b = 240 => s[2] >= 144)
              /\ (b = 244 => s[2] <= 143)
              /\ valid_utf8(Drop(s, 4))
         ELSE FALSE

\* ValidPathInfo::write
ValidPathInfo_write(o, path, include_path) ==
    LET o1 == IF include_path THEN write_string(o, path) ELSE o
        o2 == write_string(o1, <<>>)
        o3 == write_string(o2, NAR_HASH)
        o4 == write_u64(o3, 0)
        o5 == write_u64(o4, 0)
        o6 == write_u64(o5, 32)
        o7 == write_u64(o6, 1)
        o8 == write_u64(o7, 0)
    IN write_string(o8, <<>>)

---------------------------------------------------------------------------
(* The client: its wire encoding (spec sections 3, 4.3, 4.5 and 6.2) and *)
(* the scripts it may play                                               *)

WireU64(n) == [i \in 1..8 |-> IF i <= 4 THEN (n \div (256 ^ (i - 1))) % 256 ELSE 0]

WirePad(n) == (8 - (n % 8)) % 8

WireBytes(s) == WireU64(Len(s)) \o s \o Zeros(WirePad(Len(s)))

RECURSIVE WireStrings(_)
WireStrings(ss) ==
    IF ss = <<>> THEN <<>> ELSE WireBytes(Head(ss)) \o WireStrings(Tail(ss))

WireStringSeq(ss) == WireU64(Len(ss)) \o WireStrings(ss)

RECURSIVE WireWords(_)
WireWords(ws) ==
    IF ws = <<>> THEN <<>> ELSE WireU64(Head(ws)) \o WireWords(Tail(ws))

RECURSIVE WireChunks(_)
WireChunks(cs) ==
    IF cs = <<>> THEN <<>>
    ELSE WireU64(Len(Head(cs))) \o Head(cs) \o WireChunks(Tail(cs))

\* a framed source: the chunks, unpadded, then the zero-length chunk
WireFramed(cs) == WireChunks(cs) \o WireU64(0)

\* obsolete words a client of version v sends after its version
NumObsolete(v) ==
    (IF v % 256 >= 14 THEN 1 ELSE 0) + (IF v % 256 >= 11 THEN 1 ELSE 0)

StrA == <<97>>
StrB == <<98>>
StrABC == <<97, 98, 99>>
\* eight bytes, the first of which never occurs in UTF-8
StrRaw8 == <<255, 110, 105, 120, 47, 97, 98, 99>>
\* two bytes that are not UTF-8
StrRaw == <<195, 40>>

Paths == {StrABC, StrRaw8}

\* Scenario C of the spec
ScenarioFields == <<1, 0, 1, 7, 4, 0, 0, 0, 0, 0, 2, 1>>

Overrides == {<<StrA, StrB>>, <<StrRaw, StrB>>, <<StrA, StrRaw>>}

Chunks == {<<97, 98, 99, 100>>, <<101, 102, 103>>, Zeros(8)}

SeqsUpTo(S, n) == UNION {[1..k -> S] : k \in 0..n}

Req(o, p, c, rs, rp, fs, os, cs) ==
    [op |-> o, path |-> p, cam |-> c, refs |-> rs, repair |-> rp,
     fields |-> fs, opts |-> os, chunks |-> cs]

PathReq(o, p) == Req(o, p, <<>>, <<>>, 0, <<>>, <<>>, <<>>)

SetOptionsReq(os) == Req(19, <<>>, <<>>, <<>>, 0, ScenarioFields, os, <<>>)

\* Scenario C with a verbosity and a buildVerbosity that are no Verbosity tags
BadTagFields == <<1, 0, 1, 8, 4, 0, 0, 9, 0, 0, 2, 1>>

BadTagReq == Req(19, <<>>, <<>>, <<>>, 0, BadTagFields, <<>>, <<>>)

AddToStoreReq(p, rs, rp, cs) == Req(7, p, StrA, rs, rp, <<>>, <<>>, cs)

BareReq(o) == Req(o, <<>>, <<>>, <<>>, 0, <<>>, <<>>, <<>>)

\* opcodes lib.rs serves
Handled == {1, 7, 11, 19, 26}

HandledReqs ==
    {PathReq(o, p) : o \in {1, 11, 26}, p \in Paths}
    \cup {SetOptionsReq(os) : os \in SeqsUpTo(Overrides, MaxItems)}
    \cup {BadTagReq}
    \cup {AddToStoreReq(StrABC, rs, rp, cs) :
            rs \in SeqsUpTo({StrRaw8}, MaxItems), rp \in {0, 1},
            cs \in SeqsUpTo(Chunks, MaxChunks)}

\* every other opcode up to 48, and one that agrees with IsValidPath in its
\* low byte only
OtherReqs == {BareReq(o) : o \in ((0..48) \ Handled) \cup {65537}}

\* the requests used in scripts of more than one request
ChainReqs ==
    {PathReq(1, StrABC), PathReq(26, StrRaw8), PathReq(11, StrABC),
     SetOptionsReq(<<>>), SetOptionsReq(<<<<StrA, StrB>>>>),
     AddToStoreReq(StrABC, <<>>, 0, <<<<97, 98, 99, 100>>, <<101, 102, 103>>>>)}

ChainEnds == ChainReqs \cup {BareReq(6), BareReq(3), BareReq(0)}

EncodeReq(r) ==
    WireU64(r.op) \o
    (CASE r.op \in {1, 11, 26} -> WireBytes(r.path)
       [] r.op = 19 -> WireWords(r.fields) \o WireU64(Len(r.opts))
                       \o WireStrings(Flatten(r.opts))
       [] r.op = 7 -> WireBytes(r.path) \o WireBytes(r.cam)
                      \o WireStringSeq(r.refs) \o WireU64(r.repair)
                      \o WireFramed(r.chunks)
       [] OTHER -> <<>>)

RECURSIVE EncodeReqs(_)
EncodeReqs(rs) ==
    IF rs = <<>> THEN <<>> ELSE EncodeReq(Head(rs)) \o EncodeReqs(Tail(rs))

EncodeHello(s) ==
    WireU64(s.magic) \o WireU64(s.version)
    \o WireWords([i \in 1..NumObsolete(s.version) |-> s.obs])

Encode(s) == EncodeHello(s) \o EncodeReqs(s.reqs)

Versions == {265, 266, 267, 269, 270, 288, 289, 290, 512, 268435721}

Script(m, v, ob, rs) == [magic |-> m, version |-> v, obs |-> ob, reqs |-> rs]

\* first words that are not WORKER_MAGIC_1
BadMagics == {0, 1, WORKER_MAGIC_1 - 1, WORKER_MAGIC_1 + 1, WORKER_MAGIC_2}

HelloScripts ==
    {Script(WORKER_MAGIC_1, v, ob, rs) :
        v \in Versions, ob \in {0, 7}, rs \in {<<>>, <<PathReq(1, StrABC)>>}}
    \cup {Script(m, 290, 0, <<PathReq(1, StrABC)>>) : m \in BadMagics}

OneScripts ==
    {Script(WORKER_MAGIC_1, 290, 0, <<r>>) : r \in HandledReqs \cup OtherReqs}

ChainScripts ==
    {Script(WORKER_MAGIC_1, 290, 0, rs \o <<r>>) :
        rs \in UNION {[1..k -> ChainReqs] : k \in 1..(MaxReqs - 1)},
        r \in ChainEnds}

Scripts == HelloScripts \cup OneScripts \cup ChainScripts

---------------------------------------------------------------------------
(* process_connection *)

Init ==
    /\ script \in Scripts
    /\ input = Encode(script)
    /\ eof = NoEof
    /\ rpos = 0
    /\ out = <<>>
    /\ flushed = 0
    /\ pc = "magic"
    /\ err = NoErr
    /\ client_version = 0
    /\ op = NoOp
    /\ cnt = 0
    /\ name = <<>>
    /\ served = 0
    /\ mark = 0
    /\ NoTyped

\* Where the client's half may end.  The client may close it after any byte;
\* the choice is made by the step whose reads would cross that byte (`whole`
\* is where the step's reads end when nothing is cut) and it is final.  A
\* cut at or after `whole` is not told from the end of the script.
Ends(whole) ==
    IF eof = NoEof THEN (rpos..(whole - 1)) \cup {Len(input)} ELSE {eof}

Stream(e) == Take(input, e)

Whole == input

Eof(e) == IF e < Len(input) THEN e ELSE eof

\* process_connection ends, with an error or by a panic
Close(kind, pos, e) ==
    /\ pc' = "closed"
    /\ err' = kind
    /\ rpos' = pos
    /\ eof' = e
    /\ UNCHANGED <<typed, script, input, out, flushed, client_version, op, cnt,
                   name, served, mark>>

\* `?` on a failed read: the io error UnexpectedEof is returned
Fail(e) == Close("UnexpectedEof", e, e)

\* mutant of magic_mismatch: the word is compared with the server's magic
magic_mismatch_server(m) == m # WORKER_MAGIC_2

\* the first word is not the client's magic (lib.rs:291)
magic_mismatch(m) == m # WORKER_MAGIC_1

\* mutant of TooOld: the bound is off by one
TooOld_off(v) == v < MIN_CLIENT_VERSION - 1

\* the client's version is too old (lib.rs:303)
TooOld(v) == v < MIN_CLIENT_VERSION

\* mutant of SendsDaemonId: the bound is off by one
SendsDaemonId_off(v) == minor_of(v) > 33

\* the daemon identifier is sent (lib.rs:321)
SendsDaemonId(v) == minor_of(v) >= 33

\* mutant of FinishHandshake: the Last frame is left out
FinishHandshake_nolast(o, v) ==
    IF SendsDaemonId(v) THEN write_string(o, DAEMON_ID) ELSE o

\* mutant of ReadsReserveSpace: the bound is off by one
ReadsReserveSpace_off(v) == minor_of(v) > 11

\* the obsolete reserve-space word is read (lib.rs:317)
ReadsReserveSpace(v) == minor_of(v) >= 11

\* the obsolete CPU-affinity word is read (lib.rs:313)
ReadsCpuAffinity(v) == minor_of(v) >= 14

\* lib.rs:321-326
FinishHandshake(o, v) ==
    write_u64(IF SendsDaemonId(v) THEN write_string(o, DAEMON_ID) ELSE o, LAST)

ReadMagic ==
    /\ pc = "magic"
    /\ \E e \in Ends(read_u64(Whole, rpos).pos) :
        LET r == read_u64(Stream(e), rpos) IN
        IF ~r.ok THEN Fail(e)
           ELSE IF magic_mismatch(r.val)
           THEN Close("panic: protocol mismatch", r.pos, Eof(e))
           ELSE /\ out' = write_u64(write_u64(out, WORKER_MAGIC_2),
                                    version_to_u64(PROTOCOL_MAJOR, PROTOCOL_MINOR))
                /\ flushed' = flush(out', flushed)
                /\ rpos' = r.pos
                /\ eof' = Eof(e)
                /\ pc' = "version"
                /\ UNCHANGED <<typed, script, input, err, client_version, op, cnt,
                               name, served, mark>>

ReadClientVersion ==
    /\ pc = "version"
    /\ \E e \in Ends(read_u64(Whole, rpos).pos) :
        LET r == read_u64(Stream(e), rpos) IN
        IF ~r.ok THEN Fail(e)
           ELSE IF TooOld(r.val)
           THEN Close("panic: client version", r.pos, Eof(e))
           ELSE /\ client_version' = r.val
                /\ rpos' = r.pos
                /\ eof' = Eof(e)
                /\ IF ReadsCpuAffinity(r.val)
                   THEN pc' = "affinity" /\ UNCHANGED <<out, flushed, mark>>
                   ELSE IF ReadsReserveSpace(r.val)
                   THEN pc' = "reserve" /\ UNCHANGED <<out, flushed, mark>>
                   ELSE /\ pc' = "op"
                        /\ out' = FinishHandshake(out, r.val)
                        /\ flushed' = flush(out', flushed)
                        /\ mark' = Len(out')
                /\ UNCHANGED <<typed, script, input, err, op, cnt, name, served>>

ReadCpuAffinity ==
    /\ pc = "affinity"
    /\ \E e \in Ends(read_u64(Whole, rpos).pos) :
        LET r == read_u64(Stream(e), rpos) IN
        IF ~r.ok THEN Fail(e)
           ELSE /\ rpos' = r.pos
                /\ eof' = Eof(e)
                /\ pc' = "reserve"
                /\ UNCHANGED <<typed, script, input, out, flushed, err,
                               client_version, op, cnt, name, served, mark>>

ReadReserveSpace ==
    /\ pc = "reserve"
    /\ \E e \in Ends(read_u64(Whole, rpos).pos) :
        LET r == read_u64(Stream(e), rpos) IN
        IF ~r.ok THEN Fail(e)
           ELSE /\ rpos' = r.pos
                /\ eof' = Eof(e)
                /\ pc' = "op"
                /\ out' = FinishHandshake(out, client_version)
                /\ flushed' = flush(out', flushed)
                /\ mark' = Len(out')
                /\ UNCHANGED <<typed, script, input, err, client_version, op, cnt,
                               name, served>>

---------------------------------------------------------------------------
(* read_command *)

\* the discriminants of enum WorkerOp (lib.rs:11-55): from_u64 is Some
WorkerOpValues == ((1..46) \ {2, 15, 17})

\* the arms of the match in read_command (lib.rs:201-281)
SetOptionsOp == 19
AddTempRootOp == 11
IsValidPathOp == 1
AddToStoreOp == 7
QueryPathInfoOp == 26

MatchArms == {SetOptionsOp, AddTempRootOp, IsValidPathOp, AddToStoreOp, QueryPathInfoOp}

\* number of u64 fields of SetOptions read before the overrides (lib.rs:204-215)
OptionFields == 12

\* read_command returns Ok(()) and the loop of process_connection goes on
Return ==
    /\ pc' = "op"
    /\ op' = NoOp
    /\ cnt' = 0
    /\ name' = <<>>
    /\ served' = served + 1
    /\ mark' = Len(out')

ReadOp ==
    /\ pc = "op"
    /\ \E e \in Ends(read_u64(Whole, rpos).pos) :
        LET r == read_u64(Stream(e), rpos) IN
        IF ~r.ok THEN Fail(e)
           ELSE IF r.val \notin WorkerOpValues
           THEN Close("panic: bad worker op", r.pos, Eof(e))
           ELSE IF r.val \notin MatchArms
           THEN Close("bail: received worker op", r.pos, Eof(e))
           ELSE /\ op' = r.val
                /\ rpos' = r.pos
                /\ eof' = Eof(e)
                /\ pc' = "body"
                /\ UNCHANGED <<typed, script, input, out, flushed, err,
                               client_version, cnt, name, served, mark>>

\* lib.rs:204-231: the twelve fields and the number of overrides
SetOptionsFields ==
    /\ pc = "body" /\ op = SetOptionsOp
    /\ \E e \in Ends(read_u64s(Whole, rpos, OptionFields + 1).pos) :
        LET r == read_u64s(Stream(e), rpos, OptionFields + 1) IN
        IF ~r.ok THEN Fail(e)
           ELSE /\ rpos' = r.pos
                /\ eof' = Eof(e)
                /\ UNCHANGED <<typed, script, input, out, flushed, err,
                               client_version>>
                /\ IF r.vals[OptionFields + 1] = 0
                   THEN Return
                   ELSE /\ pc' = "overrides"
                        /\ cnt' = r.vals[OptionFields + 1]
                        /\ UNCHANGED <<op, name, served, mark>>

\* lib.rs:233-234: the name of an override, then its value, each unwrapped
\* from String::from_utf8
read_override(s, pos) ==
    Then(read_string(s, pos), LAMBDA n :
    IF ~n.ok THEN [ok |-> FALSE, panic |-> FALSE, pos |-> n.pos]
    ELSE IF ~valid_utf8(n.val) THEN [ok |-> FALSE, panic |-> TRUE, pos |-> n.pos]
    ELSE Then(read_string(s, n.pos), LAMBDA v :
         IF ~v.ok THEN [ok |-> FALSE, panic |-> FALSE, pos |-> v.pos]
         ELSE IF ~valid_utf8(v.val) THEN [ok |-> FALSE, panic |-> TRUE, pos |-> v.pos]
         ELSE [ok |-> TRUE, panic |-> FALSE, pos |-> v.pos]))

\* lib.rs:232-236: one turn of the loop over the overrides
SetOptionsOverride ==
    /\ pc = "overrides"
    /\ \E e \in Ends(read_override(Whole, rpos).pos) :
        LET r == read_override(Stream(e), rpos) IN
        IF r.panic THEN Close("panic: from_utf8", r.pos, Eof(e))
           ELSE IF ~r.ok THEN Fail(e)
           ELSE /\ rpos' = r.pos
                /\ eof' = Eof(e)
                /\ UNCHANGED <<typed, script, input, out, flushed, err,
                               client_version>>
                /\ IF cnt = 1
                   THEN Return
                   ELSE /\ cnt' = cnt - 1
                        /\ UNCHANGED <<pc, op, name, served, mark>>

\* lib.rs:238-245
AddTempRoot ==
    /\ pc = "body" /\ op = AddTempRootOp
    /\ \E e \in Ends(read_string(Whole, rpos).pos) :
        LET r == read_string(Stream(e), rpos) IN
        IF ~r.ok THEN Fail(e)
           ELSE /\ rpos' = r.pos
                /\ eof' = Eof(e)
                /\ out' = write_u64(write_u64(out, LAST), 1)
                /\ flushed' = flush(out', flushed)
                /\ Return
                /\ UNCHANGED <<typed, script, input, err, client_version>>

\* lib.rs:246-253
IsValidPath ==
    /\ pc = "body" /\ op = IsValidPathOp
    /\ \E e \in Ends(read_string(Whole, rpos).pos) :
        LET r == read_string(Stream(e), rpos) IN
        IF ~r.ok THEN Fail(e)
           ELSE /\ rpos' = r.pos
                /\ eof' = Eof(e)
                /\ out' = write_u64(write_u64(out, LAST), 1)
                /\ flushed' = flush(out', flushed)
                /\ Return
                /\ UNCHANGED <<typed, script, input, err, client_version>>

\* lib.rs:272-280
QueryPathInfo ==
    /\ pc = "body" /\ op = QueryPathInfoOp
    /\ \E e \in Ends(read_string(Whole, rpos).pos) :
        LET r == read_string(Stream(e), rpos) IN
        IF ~r.ok THEN Fail(e)
           ELSE /\ rpos' = r.pos
                /\ eof' = Eof(e)
                /\ out' = ValidPathInfo_write(
                              write_u64(write_u64(out, LAST), 1), r.val, FALSE)
                /\ flushed' = flush(out', flushed)
                /\ Return
                /\ UNCHANGED <<typed, script, input, err, client_version>>

\* lib.rs:255-257 and 161: name, cam_str and the length of the StorePathSet
read_names(s, pos) ==
    Then(read_string(s, pos), LAMBDA n :
    IF ~n.ok THEN [ok |-> FALSE, name |-> <<>>, len |-> 0, pos |-> n.pos]
    ELSE Then(read_string(s, n.pos), LAMBDA c :
         IF ~c.ok THEN [ok |-> FALSE, name |-> <<>>, len |-> 0, pos |-> c.pos]
         ELSE Then(read_u64(s, c.pos), LAMBDA l :
              [ok |-> l.ok, name |-> n.val, len |-> l.val, pos |-> l.pos])))

AddToStoreNames ==
    /\ pc = "body" /\ op = AddToStoreOp
    /\ \E e \in Ends(read_names(Whole, rpos).pos) :
        LET r == read_names(Stream(e), rpos) IN
        IF ~r.ok THEN Fail(e)
           ELSE /\ rpos' = r.pos
                /\ eof' = Eof(e)
                /\ name' = r.name
                /\ cnt' = r.len
                /\ pc' = IF r.len = 0 THEN "repair" ELSE "refs"
                /\ UNCHANGED <<typed, script, input, out, flushed, err,
                               client_version, op, served, mark>>

\* lib.rs:163-165: one turn of the loop of read_store_path_set
AddToStoreRef ==
    /\ pc = "refs"
    /\ \E e \in Ends(read_string(Whole, rpos).pos) :
        LET r == read_string(Stream(e), rpos) IN
        IF ~r.ok THEN Fail(e)
           ELSE /\ rpos' = r.pos
                /\ eof' = Eof(e)
                /\ cnt' = cnt - 1
                /\ pc' = IF cnt = 1 THEN "repair" ELSE "refs"
                /\ UNCHANGED <<typed, script, input, out, flushed, err,
                               client_version, op, name, served, mark>>

\* lib.rs:258
AddToStoreRepair ==
    /\ pc = "repair"
    /\ \E e \in Ends(read_bool(Whole, rpos).pos) :
        LET r == read_bool(Stream(e), rpos) IN
        IF ~r.ok THEN Fail(e)
           ELSE /\ rpos' = r.pos
                /\ eof' = Eof(e)
                /\ pc' = "framed"
                /\ UNCHANGED <<typed, script, input, out, flushed, err,
                               client_version, op, cnt, name, served, mark>>

\* mutant of read_chunk: a chunk is read like a byte string, with padding
read_chunk_padded(s, pos) ==
    LET l == read_u64(s, pos) IN
    IF ~l.ok THEN [ok |-> FALSE, last |-> FALSE, pos |-> l.pos]
    ELSE IF l.val = 0 THEN [ok |-> TRUE, last |-> TRUE, pos |-> l.pos]
    ELSE LET b == read_exact(s, l.pos, l.val) IN
         IF ~b.ok THEN [ok |-> FALSE, last |-> FALSE, pos |-> b.pos]
         ELSE LET p == read_exact(s, b.pos, padding(l.val)) IN
              [ok |-> p.ok, last |-> FALSE, pos |-> p.pos]

\* mutant of read_chunk: the end of the stream is taken for the last chunk
read_chunk_eof(s, pos) ==
    LET l == read_u64(s, pos) IN
    IF ~l.ok THEN [ok |-> TRUE, last |-> TRUE, pos |-> l.pos]
    ELSE IF l.val = 0 THEN [ok |-> TRUE, last |-> TRUE, pos |-> l.pos]
    ELSE LET b == read_exact(s, l.pos, l.val) IN
         [ok |-> b.ok, last |-> FALSE, pos |-> b.pos]

\* lib.rs:130-135: one turn of the loop of read_framed_data: the length of
\* a chunk, then, unless it is zero, the chunk
read_chunk(s, pos) ==
    LET l == read_u64(s, pos) IN
    IF ~l.ok THEN [ok |-> FALSE, last |-> FALSE, pos |-> l.pos]
    ELSE IF l.val = 0 THEN [ok |-> TRUE, last |-> TRUE, pos |-> l.pos]
    ELSE LET b == read_exact(s, l.pos, l.val) IN
         [ok |-> b.ok, last |-> FALSE, pos |-> b.pos]

\* lib.rs:129-136, one turn of the loop of read_framed_data, and after its
\* last turn lib.rs:266-270
ReadFramedChunk ==
    /\ pc = "framed"
    /\ \E e \in Ends(read_chunk(Whole, rpos).pos) :
        LET r == read_chunk(Stream(e), rpos) IN
        IF ~r.ok THEN Fail(e)
           ELSE IF r.last
           THEN /\ rpos' = r.pos
                /\ eof' = Eof(e)
                /\ out' = ValidPathInfo_write(write_u64(out, LAST), name, TRUE)
                /\ flushed' = flush(out', flushed)
                /\ Return
                /\ UNCHANGED <<typed, script, input, err, client_version>>
           ELSE /\ rpos' = r.pos
                /\ eof' = Eof(e)
                /\ UNCHANGED <<typed, script, input, out, flushed, pc, err,
                               client_version, op, cnt, name, served, mark>>

Next ==
    \/ ReadMagic
    \/ ReadClientVersion
    \/ ReadCpuAffinity
    \/ ReadReserveSpace
    \/ ReadOp
    \/ SetOptionsFields
    \/ SetOptionsOverride
    \/ AddTempRoot
    \/ IsValidPath
    \/ QueryPathInfo
    \/ AddToStoreNames
    \/ AddToStoreRef
    \/ AddToStoreRepair
    \/ ReadFramedChunk

Spec == Init /\ [][Next]_vars

---------------------------------------------------------------------------
(* The proxy's stream of a framed source: impl Stream for WithFramedSource *)
(* (worker_op.rs:60-83).  `input` is the downstream client's stream, read  *)
(* from where the decoded request ends; `out` is what is written to the    *)
(* upstream daemon.                                                        *)

BUF_SIZE == 4096

\* u64::deserialize with NixDeserializer: eight bytes, little-endian
deserialize_u64(s, pos) == read_u64(s, pos)

\* u64::serialize with NixSerializer: eight bytes, little-endian
serialize_u64(o, n) == write_all(o, to_le_bytes(n))

\* mutant of chunk_len: the buffer was made with Vec::with_capacity and
\* its length is 0
chunk_len_empty(len) == 0

\* worker_op.rs:75
chunk_len(len) == IF len < BUF_SIZE THEN len ELSE BUF_SIZE

\* mutant of stream_rest: what is left of a chunk after one buffer is dropped
stream_rest_none(len, n) == 0

\* worker_op.rs:78
stream_rest(len, n) == len - n

\* a chunk whose payload does not fit the buffer
BigChunk == [i \in 1..(BUF_SIZE + 1) |-> 1 + (i % 7)]

StreamChunkLists ==
    SeqsUpTo(Chunks, MaxChunks)
    \cup {<<BigChunk>>, <<<<101, 102, 103>>, BigChunk>>}

\* the request has been decoded; then comes its framed source, and after
\* that whatever the client sends next
StreamScripts ==
    {Script(WORKER_MAGIC_1, 290, 0, <<AddToStoreReq(StrABC, <<>>, 0, cs)>> \o rs) :
        cs \in StreamChunkLists,
        rs \in {<<>>, <<BareReq(0)>>, <<PathReq(1, StrABC)>>}}

StreamInit ==
    /\ script \in StreamScripts
    /\ input = Encode(script)
    /\ eof = NoEof
    /\ rpos = Len(input) - Len(WireFramed(script.reqs[1].chunks))
                         - Len(EncodeReqs(Tail(script.reqs)))
    /\ out = <<>>
    /\ flushed = 0
    /\ pc = "stream_len"
    /\ err = NoErr
    /\ client_version = script.version
    /\ op = AddToStoreOp
    /\ cnt = 0
    /\ name = <<>>
    /\ served = 0
    /\ mark = 0
    /\ NoTyped

\* stream returns an error
StreamFail(e) ==
    /\ pc' = "stream_failed"
    /\ err' = "UnexpectedEof"
    /\ rpos' = e
    /\ eof' = e
    /\ UNCHANGED <<typed, script, input, out, flushed, client_version, op, cnt,
                   name, served, mark>>

\* worker_op.rs:68-73: the length of the next chunk is read and forwarded
StreamLen ==
    /\ pc = "stream_len"
    /\ \E e \in Ends(deserialize_u64(Whole, rpos).pos) :
        LET r == deserialize_u64(Stream(e), rpos) IN
        IF ~r.ok THEN StreamFail(e)
        ELSE /\ rpos' = r.pos
             /\ eof' = Eof(e)
             /\ out' = serialize_u64(out, r.val)
             /\ cnt' = r.val
             /\ pc' = IF r.val = 0 THEN "streamed" ELSE "stream_data"
             /\ UNCHANGED <<typed, script, input, flushed, err, client_version, op,
                            name, served, mark>>

\* worker_op.rs:74-79: one turn of the inner loop
StreamData ==
    /\ pc = "stream_data"
    /\ \E e \in Ends(read_exact(Whole, rpos, chunk_len(cnt)).pos) :
        LET r == read_exact(Stream(e), rpos, chunk_len(cnt)) IN
        IF ~r.ok THEN StreamFail(e)
        ELSE /\ rpos' = r.pos
             /\ eof' = Eof(e)
             /\ out' = write_all(out, r.buf)
             /\ cnt' = stream_rest(cnt, chunk_len(cnt))
             /\ pc' = IF cnt' > 0 THEN "stream_data" ELSE "stream_len"
             /\ UNCHANGED <<typed, script, input, flushed, err, client_version, op,
                            name, served, mark>>

StreamNext == StreamLen \/ StreamData

StreamSpec == StreamInit /\ [][StreamNext]_vars

---------------------------------------------------------------------------
(* The loops of lib.rs and of worker_op.rs run to their end.  The client's *)
(* bytes are all there and its half is closed behind them, so no read      *)
(* blocks: process_connection, a single thread, takes its next step        *)
(* whenever it has one, and so does WithFramedSource::stream.              *)

\* the scripts played to the end: the handshakes, the single requests, and
\* the chains in which every request but the last has a loop of its own
\* (the overrides of SetOptions, the framed source of AddToStore)
LiveScripts ==
    HelloScripts \cup OneScripts
    \cup {s \in ChainScripts :
            \A i \in 1..(Len(s.reqs) - 1) :
                \/ s.reqs[i].op = AddToStoreOp
                \/ s.reqs[i].op = SetOptionsOp /\ s.reqs[i].opts # <<>>}

\* the framed sources streamed to the end: those of chunks that fit the
\* buffer
LiveStreamScripts ==
    {s \in StreamScripts :
        \A i \in 1..Len(s.reqs[1].chunks) :
            Len(s.reqs[1].chunks[i]) <= BUF_SIZE}

LiveInit ==
    \/ Init /\ script \in LiveScripts
    \/ StreamInit /\ script \in LiveStreamScripts

LiveNext == Next \/ StreamNext

LiveSpec == LiveInit /\ [][LiveNext]_vars /\ WF_vars(LiveNext)

---------------------------------------------------------------------------
(* write_u64 and write_string on a write half that may take fewer bytes    *)
(* than it is offered.  Write::write returns how many bytes it took, from  *)
(* none to all of them; write_all calls it until the buffer is through.    *)

\* Write::write on a write half that takes at most k bytes in this call
write_upto(o, buf, k) == o \o Take(buf, IF k < Len(buf) THEN k ELSE Len(buf))

\* lib.rs:169-172: the count that Write::write returns is dropped and Ok(())
\* is returned
write_u64_upto(o, n, k) == write_upto(o, to_le_bytes(n), k)

\* lib.rs:174-185: the length goes through write_u64, the bytes and the
\* padding through write_all
write_string_upto(o, s, k) ==
    write_all(write_all(write_u64_upto(o, Len(s), k), s),
              Zeros(padding(Len(s))))

WordItem(n) == [kind |-> "u64", word |-> n, bytes |-> <<>>]

BytesItem(b) == [kind |-> "bytes", word |-> 0, bytes |-> b]

\* what the server writes in the handshake (lib.rs:297-298, 321-325) and
\* in the replies of read_command (lib.rs:242-243, 269, 276-277, 98-112)
WriteScripts ==
    {<<WordItem(WORKER_MAGIC_2),
       WordItem(version_to_u64(PROTOCOL_MAJOR, PROTOCOL_MINOR))>>,
     <<BytesItem(DAEMON_ID), WordItem(LAST)>>,
     <<WordItem(LAST), WordItem(1)>>,
     <<WordItem(LAST), BytesItem(StrABC), BytesItem(<<>>)>>,
     <<BytesItem(NAR_HASH), WordItem(0), WordItem(32)>>}

WriteInit ==
    /\ script \in WriteScripts
    /\ input = <<>>
    /\ eof = NoEof
    /\ rpos = 0
    /\ out = <<>>
    /\ flushed = 0
    /\ pc = "write"
    /\ err = NoErr
    /\ client_version = 0
    /\ op = NoOp
    /\ cnt = 0
    /\ name = <<>>
    /\ served = 0
    /\ mark = 0
    /\ NoTyped

\* the item is written and the next one is due
Written ==
    /\ cnt' = cnt + 1
    /\ pc' = IF cnt + 1 = Len(script) THEN "written" ELSE "write"
    /\ UNCHANGED <<typed, script, input, eof, rpos, flushed, err,
                   client_version, op, name, served, mark>>

\* self.write_u64(n)?
WriteU64 ==
    /\ pc = "write"
    /\ script[cnt + 1].kind = "u64"
    /\ \E k \in 0..8 : out' = write_u64_upto(out, script[cnt + 1].word, k)
    /\ Written

\* self.write_string(s)?
WriteBytes ==
    /\ pc = "write"
    /\ script[cnt + 1].kind = "bytes"
    /\ \E k \in 0..8 : out' = write_string_upto(out, script[cnt + 1].bytes, k)
    /\ Written

WriteNext == WriteU64 \/ WriteBytes

WriteSpec == WriteInit /\ [][WriteNext]_vars

---------------------------------------------------------------------------
(* The typed codec: NixSerializer and NixDeserializer driven by the types  *)
(* of worker_op.rs.  A type is a record whose field k names its kind; a    *)
(* value of a struct is the tuple of its fields, of a Vec the sequence of  *)
(* its elements, of an enum the name of the variant, of an Option <<>> or  *)
(* <<v>>.  The wire form of each kind is that of spec section 3.           *)

U64 == [k |-> "u64"]

Bool == [k |-> "bool"]

\* NixString, StorePath, Path, NarHash: byte strings
Bytes == [k |-> "bytes"]

Unit == [k |-> "unit"]

SeqOf(T) == [k |-> "seq", of |-> T]

Struct(Ts) == [k |-> "struct", of |-> Ts]

OptionOf(T) == [k |-> "option", of |-> T]

Enum(tags) == [k |-> "enum", tags |-> tags]

\* StorePathSet, StringSet, PathSet
BytesSet == SeqOf(Bytes)

\* mutant of Verbosity: two variants carry the same tag
Verbosity_dup ==
    Enum([Error |-> 0, Warn |-> 1, Notice |-> 2, Info |-> 3, Talkative |-> 4,
          Chatty |-> 5, Debug |-> 6, Vomit |-> 6])

\* worker_op.rs:257-275
Verbosity ==
    Enum([Error |-> 0, Warn |-> 1, Notice |-> 2, Info |-> 3, Talkative |-> 4,
          Chatty |-> 5, Debug |-> 6, Vomit |-> 7])

\* worker_op.rs:277-292
SetOptions ==
    Struct(<<Bool, Bool, Bool, Verbosity, U64, U64, U64, Verbosity, U64, U64,
             U64, Bool, SeqOf(Struct(<<Bytes, Bytes>>))>>)

\* the variant of the enum T whose tag is t
variant_of(T, t) == CHOOSE v \in DOMAIN T.tags : T.tags[v] = t

has_variant(T, t) == \E v \in DOMAIN T.tags : T.tags[v] = t

Decoded(v, pos) == [ok |-> TRUE, err |-> NoErr, val |-> v, pos |-> pos]

Undecoded(kind, pos) == [ok |-> FALSE, err |-> kind, val |-> <<>>, pos |-> pos]

RECURSIVE deserialize(_, _, _)
RECURSIVE deserialize_seq(_, _, _, _)
RECURSIVE deserialize_fields(_, _, _)

\* T::deserialize on the stream s from pos
deserialize(T, s, pos) ==
    CASE T.k = "unit" -> Decoded(<<>>, pos)
      [] T.k = "u64" ->
            LET r == read_u64(s, pos) IN
            IF r.ok THEN Decoded(r.val, r.pos)
            ELSE Undecoded("UnexpectedEof", r.pos)
      [] T.k = "bool" ->
            LET r == read_u64(s, pos) IN
            IF r.ok THEN Decoded(r.val # 0, r.pos)
            ELSE Undecoded("UnexpectedEof", r.pos)
      [] T.k = "bytes" ->
            LET r == read_string(s, pos) IN
            IF r.ok THEN Decoded(r.val, r.pos)
            ELSE Undecoded("UnexpectedEof", r.pos)
      [] T.k = "enum" ->
            LET r == read_u64(s, pos) IN
            IF ~r.ok THEN Undecoded("UnexpectedEof", r.pos)
            ELSE IF has_variant(T, r.val) THEN Decoded(variant_of(T, r.val), r.pos)
            ELSE Undecoded("UnknownTag", r.pos)
      [] T.k = "option" ->
            LET r == read_u64(s, pos) IN
            IF ~r.ok THEN Undecoded("UnexpectedEof", r.pos)
            ELSE IF r.val = 0 THEN Decoded(<<>>, r.pos)
            ELSE LET v == deserialize(T.of, s, r.pos) IN
                 IF v.ok THEN Decoded(<<v.val>>, v.pos) ELSE v
      [] T.k = "seq" ->
            LET r == read_u64(s, pos) IN
            IF ~r.ok THEN Undecoded("UnexpectedEof", r.pos)
            ELSE deserialize_seq(T.of, s, r.pos, r.val)
      [] T.k = "struct" -> deserialize_fields(T.of, s, pos)

\* n values of type T, one after the other
deserialize_seq(T, s, pos, n) ==
    IF n = 0 THEN Decoded(<<>>, pos)
    ELSE LET v == deserialize(T, s, pos) IN
         IF ~v.ok THEN v
         ELSE LET t == deserialize_seq(T, s, v.pos, n - 1) IN
              IF ~t.ok THEN t ELSE Decoded(<<v.val>> \o t.val, t.pos)

\* the fields of a struct, in declared order
deserialize_fields(Ts, s, pos) ==
    IF Ts = <<>> THEN Decoded(<<>>, pos)
    ELSE LET v == deserialize(Head(Ts), s, pos) IN
         IF ~v.ok THEN v
         ELSE LET t == deserialize_fields(Tail(Ts), s, v.pos) IN
              IF ~t.ok THEN t ELSE Decoded(<<v.val>> \o t.val, t.pos)

RECURSIVE serialize(_, _, _)
RECURSIVE serialize_seq(_, _, _)
RECURSIVE serialize_fields(_, _, _)

\* v.serialize for a value v of type T, appended to o
serialize(T, o, v) ==
    CASE T.k = "unit" -> o
      [] T.k = "u64" -> write_all(o, to_le_bytes(v))
      [] T.k = "bool" -> write_all(o, to_le_bytes(IF v THEN 1 ELSE 0))
      [] T.k = "bytes" ->
            write_all(write_all(write_all(o, to_le_bytes(Len(v))), v),
                      Zeros(padding(Len(v))))
      [] T.k = "enum" -> write_all(o, to_le_bytes(T.tags[v]))
      [] T.k = "option" ->
            IF v = <<>> THEN write_all(o, to_le_bytes(0))
            ELSE serialize(T.of, write_all(o, to_le_bytes(1)), v[1])
      [] T.k = "seq" ->
            serialize_seq(T.of, write_all(o, to_le_bytes(Len(v))), v)
      [] T.k = "struct" -> serialize_fields(T.of, o, v)

serialize_seq(T, o, vs) ==
    IF vs = <<>> THEN o
    ELSE serialize_seq(T, serialize(T, o, Head(vs)), Tail(vs))

serialize_fields(Ts, o, vs) ==
    IF Ts = <<>> THEN o
    ELSE serialize_fields(Tail(Ts), serialize(Head(Ts), o, Head(vs)), Tail(vs))

---------------------------------------------------------------------------
(* The requests and replies of worker_op.rs.  StorePath, NixString, Path   *)
(* and NarHash are byte strings and the sets sequences of them (spec 3);   *)
(* Realisation and DerivedPath, declared outside worker_op.rs, are taken   *)
(* as byte strings too.                                                    *)

\* worker_op.rs:294-300
AddToStore == Struct(<<Bytes, Bytes, BytesSet, Bool>>)

\* worker_op.rs:302-310
BuildMode == Enum([Normal |-> 0, Repair |-> 1, Check |-> 2])

\* worker_op.rs:312-316
BuildPaths == Struct(<<SeqOf(Bytes), BuildMode>>)

\* worker_op.rs:318-321
QueryMissing == Struct(<<SeqOf(Bytes)>>)

\* worker_op.rs:454-464
ValidPathInfo ==
    Struct(<<Bytes, Bytes, BytesSet, U64, U64, Bool, BytesSet, Bytes>>)

\* { path: StorePath, info: ValidPathInfo }
ValidPathInfoWithPath == Struct(<<Bytes, ValidPathInfo>>)

\* worker_op.rs:323-326
QueryPathInfoResponse == Struct(<<OptionOf(ValidPathInfo)>>)

\* worker_op.rs:328-335
QueryMissingResponse == Struct(<<BytesSet, BytesSet, BytesSet, U64, U64>>)

\* worker_op.rs:337-369
BuildStatus ==
    Enum([Built |-> 0, Substituted |-> 1, AlreadyValid |-> 2,
          PermanentFailure |-> 3, InputRejected |-> 4, OutputRejected |-> 5,
          TransientFailure |-> 6, CachedFailure |-> 7, TimedOut |-> 8,
          MiscFailure |-> 9, DependencyFailed |-> 10, LogLimitExceeded |-> 11,
          NotDeterministic |-> 12, ResolvesToAlreadyValid |-> 13,
          NoSubstituters |-> 14])

\* worker_op.rs:383-384
DrvOutputs == SeqOf(Struct(<<Bytes, Bytes>>))

\* worker_op.rs:371-380
BuildResult == Struct(<<BuildStatus, Bytes, U64, Bool, U64, U64, DrvOutputs>>)

\* worker_op.rs:409-420
GcAction ==
    Enum([ReturnLive |-> 0, ReturnDead |-> 1, DeleteDead |-> 2,
          DeleteSpecific |-> 3])

\* worker_op.rs:386-395
CollectGarbage == Struct(<<GcAction, BytesSet, Bool, U64, U64, U64, U64>>)

\* worker_op.rs:397-400
DerivationOutputMap == Struct(<<SeqOf(Struct(<<Bytes, Bytes>>))>>)

\* worker_op.rs:402-407
CollectGarbageResponse == Struct(<<BytesSet, U64, U64>>)

\* worker_op.rs:422-435
AddToStoreNar ==
    Struct(<<Bytes, Bytes, Bytes, BytesSet, U64, U64, Bool, BytesSet, Bytes,
             Bool, Bool>>)

\* worker_op.rs:437-440
FindRootsResponse == Struct(<<SeqOf(Struct(<<Bytes, Bytes>>))>>)

\* worker_op.rs:442-446
QueryValidPaths == Struct(<<BytesSet, Bool>>)

\* worker_op.rs:448-452
AddMultipleToStore == Struct(<<Bool, Bool>>)

\* worker_op.rs:468-472
VerifyStore == Struct(<<Bool, Bool>>)

\* worker_op.rs:474-478
AddSignatures == Struct(<<Bytes, BytesSet>>)

\* worker_op.rs:480-483
AddBuildLog == Struct(<<Bytes>>)

\* worker_op.rs:502-507
DerivationOutput == Struct(<<Bytes, Bytes, Bytes>>)

\* worker_op.rs:492-500
Derivation ==
    Struct(<<SeqOf(Struct(<<Bytes, DerivationOutput>>)), BytesSet, Bytes,
             Bytes, BytesSet, SeqOf(Struct(<<Bytes, Bytes>>))>>)

\* worker_op.rs:485-490
BuildDerivation == Struct(<<Bytes, Derivation, BuildMode>>)

NarFromPathOp == 38

\* the tags of enum WorkerOp (worker_op.rs:96-154)
WorkerOpTags ==
    {1, 6, 7, 9, 10, 11, 14, 19, 20, 23, 26, 29, 31, 32, 33, 34, 35, 36, 37,
     38, 39, 40, 41, 42, 43, 44, 45, 46}

\* the first argument of each variant of WorkerOp: the type of the request
ReqType(o) ==
    CASE o \in {1, 6, 10, 11, 26, 29, 33, 38, 41, 42, 43} -> Bytes
      [] o = 7 -> AddToStore
      [] o \in {9, 46} -> BuildPaths
      [] o \in {14, 23, 34} -> Unit
      [] o = 19 -> SetOptions
      [] o = 20 -> CollectGarbage
      [] o = 31 -> QueryValidPaths
      [] o = 32 -> BytesSet
      [] o = 35 -> VerifyStore
      [] o = 36 -> BuildDerivation
      [] o = 37 -> AddSignatures
      [] o = 39 -> AddToStoreNar
      [] o = 40 -> QueryMissing
      [] o = 44 -> AddMultipleToStore
      [] o = 45 -> AddBuildLog

\* mutant of is_framed: AddBuildLog is declared with a Plain request
is_framed_three(o) == o \in {7, 39, 44}

\* mutant of is_framed: every request is taken for a Plain
is_framed_none(o) == FALSE

\* the request is a WithFramedSource, not a Plain
is_framed(o) == o \in {7, 39, 44, 45}

\* the second argument of each variant of WorkerOp: Resp<T>, the type of
\* the reply (Resp<Nar> of NarFromPath is never decoded)
RespType(o) ==
    CASE o \in {1, 35} -> Bool
      [] o \in {6, 23, 31, 32, 33, 43} -> BytesSet
      [] o = 7 -> ValidPathInfoWithPath
      [] o \in {9, 10, 11, 34, 37, 45} -> U64
      [] o = 14 -> FindRootsResponse
      [] o \in {19, 39, 42, 44} -> Unit
      [] o = 20 -> CollectGarbageResponse
      [] o = 26 -> QueryPathInfoResponse
      [] o = 29 -> Bytes
      [] o = 36 -> BuildResult
      [] o = 40 -> QueryMissingResponse
      [] o = 41 -> DerivationOutputMap
      [] o = 46 -> SeqOf(Struct(<<Bytes, BuildResult>>))

---------------------------------------------------------------------------
(* The codec on its own: write_string and read_string of lib.rs on byte    *)
(* strings of every length up to MaxStrLen, and the round trip of          *)
(* tests::test_serialize (worker_op.rs:517-544) on SetOptions values.      *)

\* the byte string of length n used as payload
Payload(n) == [i \in 1..n |-> 200 + (i % 50)]

\* a byte string on the wire whose pad bytes hold `fill`, then `tail`
StringCases ==
    {[kind |-> "string", str |-> Payload(n), fill |-> f, before |-> b,
      tail |-> t] :
        n \in 0..MaxStrLen, f \in {0, 1, 255},
        b \in {<<>>, <<1, 2, 3>>}, t \in {<<>>, <<9>>, WireU64(1)}}

\* the value of tests::test_serialize
TestOptions ==
    <<TRUE, FALSE, TRUE, "Vomit", 77, 77, 77, "Error", 77, 77, 77, FALSE,
      <<<<<<98, 117, 102, 49>>, <<98, 117, 102, 50>>>>>>>>

OptionPairs == {<<<<98, 117, 102, 49>>, <<98, 117, 102, 50>>>>, <<StrRaw, <<>>>>}

OptionsValues ==
    {<<kf, FALSE, tf, v, j, 0, 77, bv, 0, 0, 2, us, os>> :
        kf \in BOOLEAN, tf \in BOOLEAN, v \in DOMAIN Verbosity.tags,
        j \in {0, 4, U64Cap - 1}, bv \in {"Error", "Chatty", "Vomit"},
        us \in BOOLEAN, os \in SeqsUpTo(OptionPairs, MaxItems)}
    \cup {TestOptions}

OptionsCases == {[kind |-> "options", value |-> v] : v \in OptionsValues}

\* length prefixes of 2^32 + 1, 2^33, 2^40 and 2^64 - 1
HugeLengths ==
    {<<1, 0, 0, 0, 1, 0, 0, 0>>, <<0, 0, 0, 0, 2, 0, 0, 0>>,
     <<0, 0, 0, 0, 0, 1, 0, 0>>, [i \in 1..8 |-> 255]}

\* a length prefix no payload of the stream can fill, then `tail`
OversizedCases ==
    {[kind |-> "oversized", prefix |-> p, tail |-> t] :
        p \in HugeLengths,
        t \in {<<>>, <<9>>, Payload(8), Payload(MaxStrLen)}}

CodecInit ==
    /\ script \in StringCases \cup OptionsCases \cup OversizedCases
    /\ input = CASE script.kind = "string" ->
                    WireU64(Len(script.str)) \o script.str
                    \o [i \in 1..WirePad(Len(script.str)) |-> script.fill]
                    \o script.tail
                 [] script.kind = "oversized" -> script.prefix \o script.tail
                 [] script.kind = "options" -> <<>>
    /\ out = IF script.kind = "string" THEN script.before ELSE <<>>
    /\ pc = CASE script.kind = "string" -> "write_string"
              [] script.kind = "oversized" -> "read_string"
              [] script.kind = "options" -> "serialize"
    /\ eof = NoEof
    /\ rpos = 0
    /\ flushed = 0
    /\ err = NoErr
    /\ client_version = 0
    /\ op = NoOp
    /\ cnt = 0
    /\ name = <<>>
    /\ served = 0
    /\ mark = 0
    /\ NoTyped

\* lib.rs:174-185
WriteString ==
    /\ pc = "write_string"
    /\ out' = write_string(out, script.str)
    /\ pc' = "read_string"
    /\ UNCHANGED <<typed, script, input, eof, rpos, flushed, err,
                   client_version, op, cnt, name, served, mark>>

\* lib.rs:147-148: vec![0; len] of a length that was read from the stream.
\* No length is refused.  A length that saturates the model's u64 (2 GiB
\* and more) is one the allocator may fail to serve, which aborts the
\* process, or may serve lazily; shorter ones are taken to be served.
vec_alloc(l) ==
    IF l.ok /\ l.val >= U64Cap THEN {"ok", "abort"} ELSE {"ok"}

\* lib.rs:140-158
ReadString ==
    /\ pc = "read_string"
    /\ \E e \in Ends(read_string(Whole, rpos).pos) :
        LET r == read_string(Stream(e), rpos)
            l == read_u64(Stream(e), rpos) IN
        \E a \in vec_alloc(l) :
            /\ rpos' = IF a = "abort" THEN l.pos ELSE r.pos
            /\ eof' = Eof(e)
            /\ name' = r.val
            /\ pc' = IF r.ok THEN "codec_done" ELSE "codec_failed"
            /\ err' = IF a = "abort" THEN "abort: memory allocation"
                      ELSE IF r.ok THEN NoErr ELSE "UnexpectedEof"
            /\ UNCHANGED <<typed, script, input, out, flushed,
                           client_version, op, cnt, served, mark>>

\* worker_op.rs:537-541: the value is serialized into a cursor, which is
\* then set back to its start
SerializeOptions ==
    /\ pc = "serialize"
    /\ out' = serialize(SetOptions, out, script.value)
    /\ input' = out'
    /\ rpos' = 0
    /\ pc' = "deserialize"
    /\ UNCHANGED <<typed, script, eof, flushed, err, client_version, op,
                   cnt, name, served, mark>>

\* worker_op.rs:542-543
DeserializeOptions ==
    /\ pc = "deserialize"
    /\ LET r == deserialize(SetOptions, input, rpos) IN
        /\ rpos' = r.pos
        /\ decoded' = r.val
        /\ pc' = IF r.ok THEN "codec_done" ELSE "codec_failed"
        /\ err' = r.err
    /\ UNCHANGED <<replies, upos, down, pending, rpc, dbg_buf, log_buf,
                   script, input, eof, out, flushed, client_version, op,
                   cnt, name, served, mark>>

CodecNext ==
    \/ WriteString
    \/ ReadString
    \/ SerializeOptions
    \/ DeserializeOptions

CodecSpec == CodecInit /\ [][CodecNext]_vars

---------------------------------------------------------------------------
(* The parties of the proxy: the downstream client and the upstream daemon *)
(* and what they put on the wire (spec 3, 4.3, 4.4, 6.2).  A party may pad *)
(* with bytes that are not zero and send true as 2 (`dirty`).              *)

RECURSIVE Sample(_, _)
\* a value of type T: a full one or an empty one
Sample(T, full) ==
    CASE T.k = "unit" -> <<>>
      [] T.k = "u64" -> IF full THEN 77 ELSE 0
      [] T.k = "bool" -> full
      [] T.k = "bytes" -> IF full THEN StrABC ELSE <<>>
      [] T.k = "enum" ->
            CHOOSE v \in DOMAIN T.tags :
                T.tags[v] = IF full THEN Cardinality(DOMAIN T.tags) - 1 ELSE 0
      [] T.k = "option" -> IF full THEN <<Sample(T.of, full)>> ELSE <<>>
      [] T.k = "seq" -> IF full THEN <<Sample(T.of, full)>> ELSE <<>>
      [] T.k = "struct" -> [i \in 1..Len(T.of) |-> Sample(T.of[i], full)]

RECURSIVE Wire(_, _, _)
\* the value v of type T on the wire
Wire(T, v, dirty) ==
    CASE T.k = "unit" -> <<>>
      [] T.k = "u64" -> WireU64(v)
      [] T.k = "bool" -> WireU64(IF v THEN (IF dirty THEN 2 ELSE 1) ELSE 0)
      [] T.k = "bytes" ->
            WireU64(Len(v)) \o v
            \o [i \in 1..WirePad(Len(v)) |-> IF dirty THEN 255 ELSE 0]
      [] T.k = "enum" -> WireU64(T.tags[v])
      [] T.k = "option" ->
            IF v = <<>> THEN WireU64(0)
            ELSE WireU64(1) \o Wire(T.of, v[1], dirty)
      [] T.k = "seq" ->
            WireU64(Len(v))
            \o Flatten([i \in 1..Len(v) |-> Wire(T.of, v[i], dirty)])
      [] T.k = "struct" ->
            Flatten([i \in 1..Len(T.of) |-> Wire(T.of[i], v[i], dirty)])

\* the opcodes whose request is followed by a framed source (spec 4.3)
FramedSet == {7, 39, 44, 45}

\* a NAR of one regular file: "nix-archive-1", "(", "type", "regular",
\* "contents", the contents, ")"
SampleNar ==
    WireStrings(<<
        <<110, 105, 120, 45, 97, 114, 99, 104, 105, 118, 101, 45, 49>>,
        <<40>>, <<116, 121, 112, 101>>,
        <<114, 101, 103, 117, 108, 97, 114>>,
        <<99, 111, 110, 116, 101, 110, 116, 115>>, StrABC, <<41>>>>)

\* the opcodes of the opcode table (spec 6.2)
TableOps == {1, 6, 7, 9, 10, 11, 14, 19, 20, 23, 26, 29} \cup (31..46)

\* a request and the reply the upstream daemon gives to it
Exchange(o, full, dirty, cs, rfull, rdirty) ==
    [op |-> o, val |-> Sample(ReqType(o), full), dirty |-> dirty,
     chunks |-> cs,
     rval |-> IF o = 38 THEN <<>> ELSE Sample(RespType(o), rfull),
     rdirty |-> rdirty]

\* a request word that is no opcode of the table
UnknownExchange(o) ==
    [op |-> o, val |-> <<>>, dirty |-> FALSE, chunks |-> <<>>,
     rval |-> <<>>, rdirty |-> FALSE]

\* what the client sends for the exchange x
WireRequest(x) ==
    IF x.op \notin TableOps THEN WireU64(x.op)
    ELSE WireU64(x.op) \o Wire(ReqType(x.op), x.val, x.dirty)
         \o (IF x.op \in FramedSet THEN WireFramed(x.chunks) ELSE <<>>)

\* the typed reply of the upstream daemon
WireReply(x) ==
    IF x.op \notin TableOps THEN <<>>
    ELSE IF x.op = 38 THEN SampleNar
    ELSE Wire(RespType(x.op), x.rval, x.rdirty)

RECURSIVE WireRequests(_)
WireRequests(xs) ==
    IF xs = <<>> THEN <<>> ELSE WireRequest(Head(xs)) \o WireRequests(Tail(xs))

RECURSIVE WireReplies(_)
\* the upstream daemon's stream: for each request Last, then the reply
WireReplies(xs) ==
    IF xs = <<>> THEN <<>>
    ELSE WireU64(1634497651) \o WireReply(Head(xs)) \o WireReplies(Tail(xs))

\* one exchange per opcode of the table
SingleExchanges ==
    {Exchange(o, TRUE, FALSE, <<StrABC>>, TRUE, FALSE) : o \in TableOps}
    \cup {Exchange(o, FALSE, FALSE, <<>>, rfull, rfull) :
            o \in TableOps, rfull \in BOOLEAN}
    \cup {Exchange(o, TRUE, TRUE, <<>>, TRUE, FALSE) : o \in {1, 35, 45}}
    \cup {UnknownExchange(o) : o \in {0, 2, 47}}

\* the exchanges used in scripts of more than one request
ChainExchanges ==
    {Exchange(1, TRUE, FALSE, <<>>, TRUE, FALSE),
     Exchange(1, TRUE, FALSE, <<>>, TRUE, TRUE),
     Exchange(7, TRUE, FALSE, <<<<97, 98, 99, 100>>, <<101, 102, 103>>>>, TRUE, FALSE),
     Exchange(38, TRUE, FALSE, <<>>, TRUE, FALSE)}

ProxyScript(xs, cut) ==
    [magic |-> WORKER_MAGIC_1, version |-> 290, obs |-> 0, reqs |-> xs,
     ucut |-> cut]

\* `ucut`: the bytes of its stream the upstream daemon does not send
ProxyScripts ==
    {ProxyScript(<<x>>, cut) : x \in SingleExchanges, cut \in {0, 1}}
    \cup {ProxyScript(xs, cut) :
            xs \in UNION {[1..k -> ChainExchanges] : k \in 2..MaxReqs},
            cut \in {0, 9}}

---------------------------------------------------------------------------
(* The proxy after both handshakes (spec 4.7, step 3): one transfer reads  *)
(* requests from the downstream client (`input`) and forwards them, with   *)
(* their framed sources (WorkerOp::stream), to the upstream daemon (`out`);*)
(* the other reads the upstream daemon's replies (`replies`) and forwards  *)
(* them to the downstream client (`down`) with WorkerOp::proxy_response.   *)
(* The two take their steps in any order.                                  *)

ProxyInit ==
    /\ script \in ProxyScripts
    /\ input = EncodeHello(script) \o WireRequests(script.reqs)
    /\ eof = NoEof
    /\ rpos = Len(EncodeHello(script))
    /\ out = <<>>
    /\ flushed = 0
    /\ pc = "proxy_op"
    /\ err = NoErr
    /\ client_version = script.version
    /\ op = NoOp
    /\ cnt = 0
    /\ name = <<>>
    /\ served = 0
    /\ mark = 0
    /\ decoded = <<>>
    /\ replies = Take(WireReplies(script.reqs),
                      Len(WireReplies(script.reqs)) - script.ucut)
    /\ upos = 0
    /\ down = <<>>
    /\ pending = <<>>
    /\ rpc = "stderr"
    /\ dbg_buf = <<>>
    /\ log_buf = <<>>

\* WorkerOp::deserialize: the tag of a variant, then the request
read_op(s, pos) ==
    LET t == read_u64(s, pos) IN
    IF ~t.ok THEN Undecoded("UnexpectedEof", t.pos)
    ELSE IF t.val \notin WorkerOpTags THEN Undecoded("UnknownTag", t.pos)
    ELSE LET b == deserialize(ReqType(t.val), s, t.pos) IN
         IF ~b.ok THEN b ELSE Decoded(<<t.val, b.val>>, b.pos)

\* WorkerOp::serialize
write_op(o, v) == serialize(ReqType(v[1]), write_all(o, to_le_bytes(v[1])), v[2])

\* worker_op.rs:237
mismatch(dbg, log) == dbg # log

\* a request is read, checked against its re-encoding and forwarded; then
\* WorkerOp::stream (worker_op.rs:191-207): Plain::stream returns at once
ForwardRequest ==
    /\ pc = "proxy_op"
    /\ \E e \in Ends(read_op(Whole, rpos).pos) :
        LET r == read_op(Stream(e), rpos)
            seen == SubSeq(input, rpos + 1, r.pos)
        IN IF ~r.ok
           THEN /\ pc' = "closed"
                /\ err' = r.err
                /\ rpos' = r.pos
                /\ eof' = IF r.err = "UnexpectedEof" THEN e ELSE Eof(e)
                /\ UNCHANGED <<typed, script, input, out, flushed,
                               client_version, op, cnt, name, served, mark>>
           ELSE IF mismatch(write_op(<<>>, r.val), seen)
           THEN /\ pc' = "closed"
                /\ err' = "panic: mismatch"
                /\ rpc' = "aborted"
                /\ rpos' = r.pos
                /\ eof' = Eof(e)
                /\ UNCHANGED <<decoded, replies, upos, down, pending, dbg_buf,
                               log_buf, script, input, out, flushed,
                               client_version, op, cnt, name, served, mark>>
           ELSE /\ out' = write_all(out, write_op(<<>>, r.val))
                /\ rpos' = r.pos
                /\ eof' = Eof(e)
                /\ op' = r.val[1]
                /\ IF is_framed(r.val[1])
                   THEN pc' = "stream_len" /\ UNCHANGED <<pending, served>>
                   ELSE /\ pc' = "proxy_op"
                        /\ pending' = Append(pending, r.val[1])
                        /\ served' = served + 1
                /\ UNCHANGED <<decoded, replies, upos, down, rpc, dbg_buf,
                               log_buf, script, input, flushed, err,
                               client_version, cnt, name, mark>>

\* worker_op.rs:81 and 198-205: the framed source is through, stream returns
StreamReturn ==
    /\ pc = "streamed"
    /\ pc' = "proxy_op"
    /\ pending' = Append(pending, op)
    /\ served' = served + 1
    /\ UNCHANGED <<decoded, replies, upos, down, rpc, dbg_buf, log_buf,
                   script, input, eof, rpos, out, flushed, err,
                   client_version, op, cnt, name, mark>>

\* the stderr frames ahead of a reply: the upstream daemon of this model
\* sends Last alone (spec 4.4)
ForwardStderr ==
    /\ rpc = "stderr"
    /\ pending # <<>>
    /\ LET r == read_u64(replies, upos) IN
        /\ upos' = r.pos
        /\ IF r.ok /\ r.val = LAST
           THEN down' = write_all(down, to_le_bytes(r.val)) /\ rpc' = "response"
           ELSE down' = down /\ rpc' = "UnexpectedEof"
    /\ UNCHANGED <<decoded, replies, pending, dbg_buf, log_buf, script,
                   input, eof, rpos, out, flushed, pc, err, client_version,
                   op, cnt, name, served, mark>>

RECURSIVE nar_tokens(_, _, _)
\* the strings of a NAR up to the parenthesis that closes the first
nar_tokens(s, pos, depth) ==
    LET t == read_string(s, pos) IN
    IF ~t.ok THEN [ok |-> FALSE, pos |-> t.pos]
    ELSE LET d == depth + (IF t.val = <<40>> THEN 1
                           ELSE IF t.val = <<41>> THEN -1 ELSE 0) IN
         IF d = 0 THEN [ok |-> TRUE, pos |-> t.pos]
         ELSE nar_tokens(s, t.pos, d)

\* nar::stream: the extent of the NAR that starts at pos; its bytes are
\* passed on as they are
nar_stream(s, pos) ==
    LET m == read_string(s, pos) IN
    IF ~m.ok THEN [ok |-> FALSE, pos |-> m.pos] ELSE nar_tokens(s, m.pos, 0)

\* mutant of reply_serialize: the reply goes to the scratch buffer again
reply_serialize_dbg(T, o, v) == o

\* worker_op.rs:243
reply_serialize(T, o, v) == serialize(T, o, v)

\* mutant of mismatch_reply: the comparison is never true
mismatch_reply_never(dbg, log) == FALSE

\* worker_op.rs:237
mismatch_reply(dbg, log) == dbg # log

\* WorkerOp::proxy_response (worker_op.rs:209-252) for the oldest pending
\* request
ProxyResponse ==
    /\ rpc = "response"
    /\ IF Head(pending) = NarFromPathOp
       THEN LET n == nar_stream(replies, upos) IN
            /\ upos' = n.pos
            /\ log_buf' = SubSeq(replies, upos + 1, n.pos)
            /\ dbg_buf' = <<>>
            /\ IF n.ok
               THEN /\ down' = write_all(down, SubSeq(replies, upos + 1, n.pos))
                    /\ pending' = Tail(pending)
                    /\ rpc' = "stderr"
               ELSE /\ rpc' = "UnexpectedEof"
                    /\ UNCHANGED <<down, pending>>
            /\ UNCHANGED <<decoded, pc>>
       ELSE LET T == RespType(Head(pending))
                r == deserialize(T, replies, upos)
                log == SubSeq(replies, upos + 1, r.pos)
                dbg == IF r.ok THEN serialize(T, <<>>, r.val) ELSE <<>>
            IN /\ upos' = r.pos
               /\ log_buf' = log
               /\ dbg_buf' = dbg
               /\ IF ~r.ok
                  THEN /\ rpc' = r.err
                       /\ UNCHANGED <<decoded, down, pending, pc>>
                  ELSE IF mismatch_reply(dbg, log)
                  THEN /\ rpc' = "panic: mismatch"
                       /\ pc' = "closed"
                       /\ decoded' = r.val
                       /\ UNCHANGED <<down, pending>>
                  ELSE /\ down' = reply_serialize(T, down, r.val)
                       /\ decoded' = r.val
                       /\ pending' = Tail(pending)
                       /\ rpc' = "stderr"
                       /\ pc' = pc
    /\ UNCHANGED <<replies, script, input, eof, rpos, out, flushed, err,
                   client_version, op, cnt, name, served, mark>>

ProxyNext ==
    \/ ForwardRequest
    \/ StreamLen
    \/ StreamData
    \/ StreamReturn
    \/ ForwardStderr
    \/ ProxyResponse

ProxySpec == ProxyInit /\ [][ProxyNext]_vars

---------------------------------------------------------------------------
(* What the spec expects on the wire, in terms of the client's script *)

\* the server's first two words
ExpectedGreeting == WireU64(1685612911) \o WireU64(290)

\* everything the server writes up to the first opcode, for client version v
ExpectedHello(v) ==
    ExpectedGreeting
    \o (IF v % 256 >= 33 THEN WireBytes(DAEMON_ID) ELSE <<>>)
    \o WireU64(1634497651)

\* the ValidPathInfo record of the stub backend
ExpectedPathInfo ==
    WireBytes(<<>>) \o WireBytes(NAR_HASH) \o WireStringSeq(<<>>)
    \o WireU64(0) \o WireU64(32) \o WireU64(1) \o WireStringSeq(<<>>)
    \o WireBytes(<<>>)

\* the typed reply of the stub backend to request r (spec 6.2)
ExpectedBody(r) ==
    CASE r.op \in {1, 11} -> WireU64(1)
      [] r.op = 26 -> WireU64(1) \o ExpectedPathInfo
      [] r.op = 7 -> WireBytes(r.path) \o ExpectedPathInfo
      [] OTHER -> <<>>

ExpectedReply(r) == WireU64(1634497651) \o ExpectedBody(r)

RECURSIVE ExpectedReplies(_)
ExpectedReplies(rs) ==
    IF rs = <<>> THEN <<>>
    ELSE ExpectedReply(Head(rs)) \o ExpectedReplies(Tail(rs))

HelloLen == Len(EncodeHello(script))

\* the offset in the client's stream right after its k-th request
ReqEnd(k) == HelloLen + Len(EncodeReqs(SubSeq(script.reqs, 1, k)))

\* the offset at which the framed source of the k-th request starts
FramedStart(k) == ReqEnd(k) - Len(WireFramed(script.reqs[k].chunks))

\* the opcode table of spec 6.2
OpcodeTable == {1, 6, 7, 9, 10, 11, 14, 19, 20, 23, 26, 29} \cup (31..46)

UnknownOpcode == {"panic: bad worker op", "bail: received worker op"}

---------------------------------------------------------------------------
(* The claims *)

\* C1: a client that sends WORKER_MAGIC_1 and a version v >= 0x10a gets,
\* before the first opcode is read, exactly WORKER_MAGIC_2, 0x122, the daemon
\* identifier iff minor(v) >= 33, and Last; the first two words are written
\* before the client's version is read and nothing else until the obsolete
\* words are consumed.
C1_HandshakeBytes ==
    (script.magic = 1852405859 /\ script.version >= 266 /\ rpos <= HelloLen)
    => out = (IF rpos < 8 THEN <<>>
              ELSE IF rpos < HelloLen THEN ExpectedGreeting
              ELSE ExpectedHello(script.version))

C1_Witness ==
    /\ pc = "op" /\ served = 0 /\ rpos = HelloLen
    /\ script.version = 290
    /\ out = ExpectedHello(290)

\* C2: a client version below 0x10a ends the connection (ClientTooOld):
\* only WORKER_MAGIC_2 and the server version were written, nothing is read
\* after the client's version.
C2_ClientTooOld ==
    (script.magic = 1852405859 /\ script.version < 266 /\ rpos >= 16)
    => /\ pc = "closed"
       /\ err = "panic: client version"
       /\ out = ExpectedGreeting
       /\ rpos = 16

C2_Witness ==
    /\ script.version = 265
    /\ pc = "closed" /\ err = "panic: client version"
    /\ Len(input) > 16

\* C3: a first word other than WORKER_MAGIC_1 ends the connection
\* (ProtocolMismatch) with nothing written and nothing further read.
C3_ProtocolMismatch ==
    script.magic # 1852405859
    => /\ out = <<>>
       /\ rpos <= 8
       /\ rpos = 8 => (pc = "closed" /\ err = "panic: protocol mismatch")

C3_Witness ==
    /\ script.magic = 1685612911
    /\ pc = "closed" /\ rpos = 8 /\ Len(input) > 8

\* C4: at every request boundary the server has written, after the
\* handshake, exactly one reply per request served, each made of Last and
\* the typed reply, in request order, and has read nothing of the next
\* request.
C4_OneReplyPerRequest ==
    pc = "op"
    => /\ out = ExpectedHello(script.version)
                \o ExpectedReplies(SubSeq(script.reqs, 1, served))
       /\ rpos = ReqEnd(served)

\* C5: when the handler of SetOptions returns, the server has written Last
\* and nothing else for it, and is back at the request boundary.
C5_SetOptionsLast ==
    [][(op = 19 /\ pc' = "op")
       => (out' = out \o WireU64(1634497651) /\ served' = served + 1)]_vars

\* C6: while AddToStore is served nothing is written until the zero-length
\* chunk has been read; then Last and the ValidPathInfoWithPath reply are
\* written, and the read position is the byte right after the terminator.
C6_AddToStore ==
    [][op = 7
       => IF pc' = "op"
          THEN /\ out' = out \o WireU64(1634497651)
                             \o WireBytes(script.reqs[served + 1].path)
                             \o ExpectedPathInfo
               /\ rpos' = ReqEnd(served + 1)
               /\ served' = served + 1
          ELSE /\ out' = out
               /\ rpos' < ReqEnd(served + 1)]_vars

C6_Witness ==
    /\ pc = "op" /\ served >= 1
    /\ script.reqs[served].op = 7
    /\ Len(script.reqs[served].chunks) = 2
    /\ script.reqs[served].chunks[1] = Zeros(8)
    /\ rpos = ReqEnd(served)

\* the payload a framed-source reader yields from the bytes bs (spec 4.3)
RECURSIVE FramedPayload(_)
FramedPayload(bs) ==
    LET n == bs[1] + 256 * bs[2] IN
    IF n = 0 THEN <<>>
    ELSE SubSeq(bs, 9, 8 + n) \o FramedPayload(Drop(bs, 8 + n))

\* C7: the proxy's stream forwards to upstream exactly the bytes it read,
\* in order; when it returns it has read up to the end of the first
\* zero-length chunk and no further, and the chunks it forwarded carry the
\* payload.
C7_StreamVerbatim ==
    /\ pc \in {"stream_len", "stream_data", "streamed"}
       => out = SubSeq(input, FramedStart(1) + 1, rpos)
    /\ pc = "streamed"
       => /\ rpos = ReqEnd(1)
          /\ out = WireFramed(script.reqs[1].chunks)
          /\ FramedPayload(out) = Flatten(script.reqs[1].chunks)

C7_Witness ==
    /\ pc = "streamed"
    /\ Len(script.reqs[1].chunks) = 2
    /\ Len(script.reqs[1].chunks[2]) > BUF_SIZE
    /\ Len(script.reqs) = 2
    /\ rpos = ReqEnd(1)

\* C8: when the client's half ends inside the framed source of an
\* AddToStore request, before its zero-length chunk is complete, the
\* connection ends with the UnexpectedEof error and nothing was written for
\* that request.
C8_TruncatedFramedSource ==
    \A k \in 1..Len(script.reqs) :
        (/\ script.reqs[k].op = 7
         /\ eof # NoEof
         /\ FramedStart(k) <= eof /\ eof < ReqEnd(k))
        => /\ pc = "closed"
           /\ err = "UnexpectedEof"
           /\ served = k - 1
           /\ Len(out) = mark

C8_Witness ==
    \E k \in 1..Len(script.reqs) :
        /\ script.reqs[k].op = 7
        /\ script.reqs[k].chunks # <<>>
        /\ eof > FramedStart(k) + 8
        /\ eof < FramedStart(k) + 8 + Len(script.reqs[k].chunks[1])
        /\ pc = "closed" /\ err = "UnexpectedEof"

\* C9: when the client's half ends exactly at a request boundary after at
\* least one request, process_connection ends without an error and writes
\* nothing more.
C9_CleanShutdown ==
    (pc = "closed" /\ served >= 1 /\ eof = ReqEnd(served) /\ rpos = eof)
    => (err = NoErr /\ Len(out) = mark)

\* C10: once the opcode of a request is read, the request is accepted if
\* and only if the opcode is in the opcode table; any other opcode ends the
\* connection (UnknownOpcode) with nothing written for it.
C10_OpcodeTable ==
    (served < Len(script.reqs) /\ rpos >= ReqEnd(served) + 8)
    => IF script.reqs[served + 1].op \in OpcodeTable
       THEN err \notin UnknownOpcode
       ELSE pc = "closed" /\ err \in UnknownOpcode /\ Len(out) = mark

\* the states of the connection of spec 4.5: Opening, Negotiating, Options,
\* Running, Closed
Phase ==
    CASE pc = "magic" -> 0
      [] pc \in {"version", "affinity", "reserve"} -> 1
      [] pc = "closed" -> 4
      [] pc = "op" /\ served = 0 -> 2
      [] OTHER -> 3

\* an opcode was read only after the handshake: the client's version and its
\* obsolete words are consumed and the server's hello, Last included, is
\* written
Handshaken ==
    /\ (op # NoOp \/ served > 0 \/ Phase \in {2, 3}) => rpos >= HelloLen
    /\ rpos > HelloLen
       => /\ client_version = script.version
          /\ Len(out) >= Len(ExpectedHello(script.version))
          /\ Take(out, Len(ExpectedHello(script.version)))
               = ExpectedHello(script.version)

\* C14: the connection moves through Opening, Negotiating, Options, Running
\* and Closed without ever going back; no opcode is read and no request is
\* served before the handshake has finished; once Closed nothing more is
\* read or written.
C14_Lifecycle ==
    [][/\ Phase' >= Phase
       /\ Handshaken /\ Handshaken'
       /\ pc = "closed" => (pc' = "closed" /\ rpos' = rpos /\ out' = out)]_vars

C14_Witness ==
    /\ pc = "closed" /\ served >= 1
    /\ script.version = 269
    /\ rpos > HelloLen

\* C15: a client whose version word has a minor byte below 10 is never
\* served: the op-loop is not reached, whatever the other bits of the word.
C15_MinorBelowTen ==
    (script.version % 256 < 10) => (pc # "op" /\ op = NoOp /\ served = 0)

\* C16: when the first opcode is about to be read the server has consumed,
\* after the client's version, two words if the client's minor is at least
\* 14, one if it is 11..13 and none otherwise, whatever the words hold; the
\* first opcode is the word at that offset.
C16_ObsoleteWords ==
    /\ (pc = "op" /\ served = 0)
       => rpos = 16 + 8 * (IF script.version % 256 >= 14 THEN 2
                           ELSE IF script.version % 256 >= 11 THEN 1 ELSE 0)
    /\ (script.version = 290 /\ pc = "op" /\ served = 0) => rpos = 32
    /\ (op # NoOp /\ served = 0) => op = script.reqs[1].op

C16_Witness ==
    /\ script.version = 267 /\ script.obs = 7
    /\ served = 0 /\ op = 1 /\ rpos = 32

\* C19: a SetOptions request whose verbosity or buildVerbosity is not a tag
\* of Verbosity (0..7) is not served: decoding fails with UnknownTag and the
\* connection closes.
C19_UnknownTag ==
    \A k \in 1..Len(script.reqs) :
        (/\ script.reqs[k].op = 19
         /\ (script.reqs[k].fields[4] \notin 0..7
             \/ script.reqs[k].fields[8] \notin 0..7)
         /\ rpos >= ReqEnd(k))
        => (pc = "closed" /\ served = k - 1)

\* C20: a request the server handles whose byte strings are not UTF-8 is
\* served like any other: once it has arrived whole the connection is back
\* in the op-loop, not closed.
C20_OpaqueStrings ==
    \A k \in 1..Len(script.reqs) :
        (/\ script.reqs[k].op \in {1, 7, 11, 19, 26}
         /\ eof = NoEof \/ eof >= ReqEnd(k)
         /\ served = k - 1
         /\ rpos >= ReqEnd(k - 1) + 8)
        => pc # "closed"

\* C17: writing a byte string of length n appends 8 + n + ((8 - n mod 8)
\* mod 8) bytes: the length as a little-endian u64, the n bytes and zero pad
\* bytes; reading one consumes as many bytes and yields the n bytes whatever
\* the pad bytes hold.
C17_StringAlignment ==
    script.kind = "string"
    => LET n == Len(script.str)
           size == 8 + n + ((8 - (n % 8)) % 8)
       IN /\ pc # "write_string"
             => /\ Len(out) = Len(script.before) + size
                /\ out = script.before \o WireU64(n) \o script.str
                         \o Zeros(size - 8 - n)
          /\ (pc = "codec_failed") = (eof # NoEof /\ eof < size)
          /\ pc = "codec_done" => (rpos = size /\ name = script.str)

C17_Witness ==
    /\ script.kind = "string" /\ pc = "codec_done"
    /\ Len(script.str) = 16 /\ script.fill = 255 /\ script.tail # <<>>
    /\ rpos = 24

\* C18: a SetOptions value that is serialized and then deserialized from
\* the bytes produced comes back equal, and the deserializer has consumed
\* exactly those bytes.
C18_SetOptionsRoundTrip ==
    (script.kind = "options" /\ pc \in {"codec_done", "codec_failed"})
    => /\ pc = "codec_done"
       /\ decoded = script.value
       /\ rpos = Len(out)

C18_Witness ==
    /\ script.kind = "options" /\ pc = "codec_done"
    /\ script.value = TestOptions
    /\ decoded[4] = "Vomit"
    /\ Len(out) = 8 * 13 + 32

\* the replies the proxy has passed on in full
Answered == served - Len(pending)

\* the offset in the upstream daemon's stream right after its k-th reply
UpEnd(k) == Len(WireReplies(SubSeq(script.reqs, 1, k)))

\* the length of the first k requests, framed sources included
UnitEnd(k) == Len(WireRequests(SubSeq(script.reqs, 1, k)))

\* the k-th reply is not the encoding of its value that a writer produces
ReplyDirty(k) ==
    /\ script.reqs[k].op \in TableOps \ {38}
    /\ WireReply(script.reqs[k])
         # Wire(RespType(script.reqs[k].op), script.reqs[k].rval, FALSE)

\* the proxy passed on the replies up to the last it answered as they came
ForwardedAsSent ==
    /\ rpc = "stderr"
       => /\ upos = UpEnd(Answered)
          /\ down = Take(WireReplies(script.reqs), UpEnd(Answered))
    /\ rpc = "panic: mismatch" => ReplyDirty(Answered + 1)

\* the last reply was decoded with the type of its request, and its
\* re-encoding is what was read
ComparedLast ==
    /\ dbg_buf = log_buf
    /\ log_buf = WireReply(script.reqs[Answered])
    /\ decoded = script.reqs[Answered].rval

\* C11 as stated: for every opcode of the table the reply is decoded with
\* the response type of the pending request and compared with the bytes
\* read, and when they match the downstream client gets the bytes the
\* upstream daemon sent.
C11_EveryOpcode ==
    /\ ForwardedAsSent
    /\ (rpc = "stderr" /\ Answered >= 1) => ComparedLast

\* C11 as amended: the same for every opcode of the table but NarFromPath,
\* whose reply is passed on without being decoded into a value or compared.
C11_ReplyFidelity ==
    /\ ForwardedAsSent
    /\ (rpc = "stderr" /\ Answered >= 1)
       => IF script.reqs[Answered].op = 38
          THEN dbg_buf = <<>> /\ log_buf # <<>>
          ELSE ComparedLast

C11_Witness ==
    /\ rpc = "stderr" /\ Answered = 2 /\ pending = <<>>
    /\ script.reqs[1].op = 38 /\ script.reqs[2].op = 7
    /\ down = WireReplies(script.reqs)

\* C12: when the re-encoding of a decoded reply differs from the bytes read
\* from upstream the connection is aborted, nothing of that reply reaches
\* the downstream client, and nothing happens afterwards.
C12_CodecMismatch ==
    /\ [](/\ rpc = "panic: mismatch"
             => /\ pc = "closed"
                /\ dbg_buf # log_buf
                /\ down = Take(replies, UpEnd(Answered) + 8)
          /\ \A k \in 1..Len(script.reqs) :
                (ReplyDirty(k) /\ upos >= UpEnd(k))
                => (rpc = "panic: mismatch" /\ Answered = k - 1))
    /\ [][rpc # "panic: mismatch"]_vars

C12_Witness ==
    /\ rpc = "panic: mismatch"
    /\ Len(script.reqs) = 2 /\ Answered = 1
    /\ script.reqs[2].op = 1
    /\ down = Take(replies, UpEnd(1) + 8)

\* C13: whatever the order of the steps of the two transfers, the upstream
\* daemon receives the client's requests as the client sent them, each
\* with its framed source right behind it and nothing of the next request
\* before the source is through; the pending requests are answered in the
\* order they were forwarded.
C13_OrderedUnits ==
    /\ out = SubSeq(input, HelloLen + 1, HelloLen + Len(out))
    /\ Len(out) <= rpos - HelloLen
    /\ Len(out) >= UnitEnd(served)
    /\ pc = "proxy_op" => Len(out) = UnitEnd(served)
    /\ served < Len(script.reqs) => Len(out) <= UnitEnd(served + 1)
    /\ pending = [i \in 1..Len(pending) |-> script.reqs[Answered + i].op]
    /\ down = Take(WireReplies(script.reqs), Len(down))
    /\ Len(down) <= UpEnd(served)

C13_Witness ==
    /\ served = 2 /\ Len(pending) = 1 /\ rpc = "response"
    /\ script.reqs[1].op = 1 /\ script.reqs[2].op = 7
    /\ pc = "proxy_op"
    /\ out = WireRequests(script.reqs)

\* the eight bytes of a length prefix stand for more than 4 GiB, the
\* ceiling spec section 3 recommends
exceeds_ceiling(b) ==
    \/ b[6] # 0 \/ b[7] # 0 \/ b[8] # 0
    \/ b[5] > 1
    \/ (b[5] = 1 /\ (b[1] # 0 \/ b[2] # 0 \/ b[3] # 0 \/ b[4] # 0))

\* C21: read_string given a length prefix above the ceiling fails with
\* MessageTooLarge, having consumed the prefix and no byte after it; a
\* short read of the prefix, the payload or the padding is UnexpectedEof.
C21_MessageTooLarge ==
    [][(pc = "read_string" /\ pc' # "read_string")
       => LET s == IF eof' = NoEof THEN input ELSE Take(input, eof')
              l == read_u64(s, rpos) IN
          /\ (l.ok /\ exceeds_ceiling(SubSeq(input, rpos + 1, rpos + 8)))
             => (err' = "MessageTooLarge" /\ rpos' = rpos + 8)
          /\ (~(l.ok /\ exceeds_ceiling(SubSeq(input, rpos + 1, rpos + 8)))
              /\ pc' = "codec_failed")
             => err' = "UnexpectedEof"]_vars

\* the request the client sends next, without its framed source
NextBody ==
    LET x == script.reqs[served + 1] IN
    WireU64(x.op) \o Wire(ReqType(x.op), x.val, x.dirty)

\* C22: the requests with a framed source are those of AddToStore,
\* AddToStoreNar, AddMultipleToStore and AddBuildLog.  Forwarding a
\* request takes its opcode and body from the client and hands them
\* upstream; for any other operation the stream step that follows reads
\* and writes nothing: both positions stay at the end of the body and
\* the request is through.
C22_FramedOps ==
    /\ [](pc \in {"stream_len", "stream_data", "streamed"}
          => op \in FramedSet)
    /\ [][(pc = "proxy_op" /\ out' # out)
          => /\ out' = out \o NextBody
             /\ rpos' = rpos + Len(NextBody)
             /\ (script.reqs[served + 1].op \in FramedSet)
                <=> (pc' = "stream_len")
             /\ (script.reqs[served + 1].op \notin FramedSet)
                => /\ pc' = "proxy_op"
                   /\ served' = served + 1
                   /\ pending' = Append(pending, script.reqs[served + 1].op)
                   /\ Len(out') = UnitEnd(served + 1)
                   /\ rpos' = HelloLen + UnitEnd(served + 1)]_vars

C22_Witness ==
    /\ Len(script.reqs) = 2 /\ served = 2 /\ pc = "proxy_op"
    /\ script.reqs[1].op = 7 /\ script.reqs[2].op = 38
    /\ Len(script.reqs[1].chunks) = 2
    /\ rpos = HelloLen + UnitEnd(2)
    /\ Len(out) = UnitEnd(2)

\* C23: when the server is about to read the client's version or the
\* next opcode, every byte it has written has been flushed.
C23_FlushedBeforeRead ==
    pc \in {"version", "op"} => flushed = Len(out)

C23_Witness ==
    /\ pc = "op" /\ served = 2 /\ Len(script.reqs) = 2
    /\ script.reqs[1].op = AddToStoreOp
    /\ script.reqs[2].op = SetOptionsOp
    /\ flushed = Len(out) /\ flushed = mark /\ mark > 16

\* process_connection has returned or panicked, or stream has returned
Stopped == pc \in {"closed", "streamed", "stream_failed"}

\* C24: with the client's bytes finite and its half closed behind them,
\* process_connection and the stream of a framed source stop.  Every step
\* that does not stop consumes input, and every turn of the op-loop, of
\* the loop of read_framed_data and of the loop of stream that does not
\* end in an error consumes at least 8 bytes.
C24_Terminates ==
    /\ <>Stopped
    /\ [][/\ Stopped' \/ rpos' > rpos
          /\ (pc \in {"op", "framed", "stream_len"}
              /\ pc' \notin {"closed", "stream_failed"})
             => rpos' >= rpos + 8]_vars

C24_Witness ==
    /\ pc = "closed" /\ err = "UnexpectedEof" /\ served = 2
    /\ script.reqs[2].op = AddToStoreOp
    /\ Len(script.reqs[2].chunks) = MaxChunks
    /\ eof = Len(input) /\ rpos = Len(input)

\* what the items written so far are on the wire
RECURSIVE WireItems(_)
WireItems(items) ==
    IF items = <<>> THEN <<>>
    ELSE (IF Head(items).kind = "u64" THEN WireU64(Head(items).word)
          ELSE WireBytes(Head(items).bytes)) \o WireItems(Tail(items))

\* C25: whatever the write half takes in one call, a write_u64 that
\* returns Ok has put all 8 bytes of the value on the write half: the
\* output is the wire form of the items written, and its length is a
\* multiple of 8.
C25_WholeWords ==
    (pc \in {"write", "written"} /\ err = NoErr)
    => /\ out = WireItems(SubSeq(script, 1, cnt))
       /\ Len(out) % 8 = 0

===========================================================================
